---- MODULE Spec2Model ----
(***************************************************************************)
(* Model of src/app.py: the link-table normaliser process_data, the        *)
(* ranking link_counts, and the Streamlit upload handler that runs once    *)
(* per session on every uploaded CSV file.                                 *)
(*                                                                         *)
(* Strings are sequences of one-character strings, so that str.strip and   *)
(* the substring tests on column names are computed, not assumed.  A       *)
(* column name is a sequence of name pieces (a marker, a digit run, a      *)
(* separator), which is as far as the code looks into it.                  *)
(***************************************************************************)
EXTENDS Integers, Sequences, FiniteSets, TLC

VARIABLES
    pc,           \* per session: the position of the script run
    uploaded_file,\* per session: the table read_csv would parse (or None)
    df_links,     \* per session: the frame returned by process_data
    exc,          \* per session: the exception in flight / caught (or None)
    G,            \* per session: the graph from nx.from_pandas_edgelist
    in_degree,    \* per session: dict(G.in_degree)
    screen,       \* per session: the elements written to the page, in order
    link_counts,  \* per session: the ranking of line 130
    html_content, \* per session: the text read back from the graph file
    network_graph_html  \* the file 'network_graph.html' in the working
                        \* directory, one for all sessions

vars == <<pc, uploaded_file, df_links, exc, G, in_degree, screen, link_counts,
          html_content, network_graph_html>>

\* Python's None for the exception slot, and an optional value for the
\* frames and graphs: Nothing until the line that assigns it has run
None == <<"None">>
Nothing == <<>>
Some(v) == <<v>>
Get(o) == o[1]

----------------------------------------------------------------------------
(* Cell values and string helpers *)

\* pandas' missing value; distinct from every string (strings hold only
\* one-character pieces)
NaN == <<"NaN">>

isna(v) == v = NaN

Whitespace == {" "}

RECURSIVE lstrip(_)
lstrip(s) ==
    IF s # <<>> /\ Head(s) \in Whitespace THEN lstrip(Tail(s)) ELSE s

RECURSIVE rstrip(_)
rstrip(s) ==
    IF s # <<>> /\ s[Len(s)] \in Whitespace
    THEN rstrip(SubSeq(s, 1, Len(s) - 1))
    ELSE s

\* Series.str.strip: strings lose leading and trailing whitespace, a
\* missing value stays missing
str_strip(v) == IF isna(v) THEN NaN ELSE rstrip(lstrip(v))

RECURSIVE Flatten(_)
Flatten(ss) == IF ss = <<>> THEN <<>> ELSE Head(ss) \o Flatten(Tail(ss))

----------------------------------------------------------------------------
(* process_data (lines 28-56) *)

\* A parsed CSV file (pd.read_csv, line 30) is [columns, rows]: the column
\* names in file order and, per row, one cell per column.  A cell is a
\* string or NaN (an empty CSV field).
SOURCE_COL == <<"Dirección">>
URL_MARKER == "URL_Destino_Contenido"
TEXTO_MARKER == "Texto_Ancla_Contenido"

\* the digit runs a column name can hold, and int() of each
DigitValue == ("0" :> 0) @@ ("1" :> 1) @@ ("2" :> 2) @@ ("3" :> 3)

\* `marker in col`
Contains(col, marker) == \E i \in 1..Len(col) : col[i] = marker

\* [col for col in df.columns if marker in col]
MarkerCols(df, marker) ==
    SelectSeq(df.columns, LAMBDA col : Contains(col, marker))

url_cols(df) == MarkerCols(df, URL_MARKER)

texto_cols(df) == MarkerCols(df, TEXTO_MARKER)

ColIndex(df, col) == CHOOSE i \in 1..Len(df.columns) : df.columns[i] = col

HasColumn(df, col) == \E i \in 1..Len(df.columns) : df.columns[i] = col

\* Series.str.extract('(\d+)'): the first digit run of the name, or NaN
RECURSIVE str_extract(_)
str_extract(col) ==
    IF col = <<>> THEN NaN
    ELSE IF Head(col) \in DOMAIN DigitValue THEN <<Head(col)>>
    ELSE str_extract(Tail(col))

\* .str.extract('(\d+)').fillna(0).astype(int)
link_num(col) ==
    LET m == str_extract(col) IN IF isna(m) THEN 0 ELSE DigitValue[m[1]]

\* df.melt(id_vars='Dirección', value_vars=cols, ...) followed by the
\* link_num column of lines 41-42: one entry per (column, row), all rows of
\* the first column, then all rows of the second, and so on.  `row` records
\* the input row an entry comes from (bookkeeping, not a column of the frame).
melt(df, cols) ==
    LET N == Len(df.rows)
        d == ColIndex(df, SOURCE_COL)
    IN  [k \in 1..(Len(cols) * N) |->
            LET col == cols[((k - 1) \div N) + 1]
                r   == ((k - 1) % N) + 1
            IN  [Direccion |-> df.rows[r][d],
                 col_name  |-> col,
                 value     |-> df.rows[r][ColIndex(df, col)],
                 link_num  |-> link_num(col),
                 row       |-> r]]

\* merge with the join key reduced to 'Dirección'
merge_on_Direccion(left, right) ==
    Flatten([i \in 1..Len(left) |->
        LET l == left[i]
            matches == SelectSeq(right, LAMBDA r : r.Direccion = l.Direccion)
        IN  [j \in 1..Len(matches) |->
                [Direccion      |-> l.Direccion,
                 link_num       |-> l.link_num,
                 url_col_name   |-> l.col_name,
                 URL_Destino    |-> l.value,
                 texto_col_name |-> matches[j].col_name,
                 Texto_Ancla    |-> matches[j].value,
                 row            |-> l.row,
                 texto_row      |-> matches[j].row]]])

\* pd.merge(left, right, on=['Dirección', 'link_num']): inner join, left
\* order kept, the matches of one left entry in right order.  Equal keys
\* match, two missing Dirección values included.
merge(left, right) ==
    Flatten([i \in 1..Len(left) |->
        LET l == left[i]
            matches == SelectSeq(right, LAMBDA r :
                           r.Direccion = l.Direccion /\ r.link_num = l.link_num)
        IN  [j \in 1..Len(matches) |->
                [Direccion      |-> l.Direccion,
                 link_num       |-> l.link_num,
                 url_col_name   |-> l.col_name,
                 URL_Destino    |-> l.value,
                 texto_col_name |-> matches[j].col_name,
                 Texto_Ancla    |-> matches[j].value,
                 row            |-> l.row,
                 texto_row      |-> matches[j].row]]])

\* df_long.dropna(subset=['URL_Destino'])
dropna(df_long) == SelectSeq(df_long, LAMBDA e : ~isna(e.URL_Destino))

\* lines 48-54: keep the three columns, rename them, strip Source and Target
\* (row, url_col_name, texto_row and texto_col_name stay as bookkeeping of
\* where a record comes from; the frame itself has only the three columns)
clean(df_long) ==
    [i \in 1..Len(df_long) |->
        [Source         |-> str_strip(df_long[i].Direccion),
         Target         |-> str_strip(df_long[i].URL_Destino),
         Anchor_Text    |-> df_long[i].Texto_Ancla,
         row            |-> df_long[i].row,
         url_col_name   |-> df_long[i].url_col_name,
         texto_row      |-> df_long[i].texto_row,
         texto_col_name |-> df_long[i].texto_col_name]]

\* The .str accessor of lines 53-54 needs an object (string) column.  The
\* Dirección column is one when the file has no row or some Dirección cell
\* is a string; the melted URL_Destino column is one when there is a URL
\* column and the file has no row or some URL cell is a string.  A column
\* of missing values only, and the value column of a melt over no columns,
\* are float64.
SourceIsObject(df) ==
    \/ df.rows = <<>>
    \/ \E r \in 1..Len(df.rows) : ~isna(df.rows[r][ColIndex(df, SOURCE_COL)])

TargetIsObject(df) ==
    /\ url_cols(df) # <<>>
    /\ \/ df.rows = <<>>
       \/ \E r \in 1..Len(df.rows), i \in 1..Len(df.columns) :
              Contains(df.columns[i], URL_MARKER) /\ ~isna(df.rows[r][i])

KeyError == <<"The following id_vars or value_vars are not present in the DataFrame: ['", "Dirección", "']">>
AttributeError_str == <<"Can only use .str accessor with string values!">>

\* process_data: the exception it raises, or the frame it returns
process_data(df) ==
    IF ~HasColumn(df, SOURCE_COL)
    THEN [raised |-> TRUE, exception |-> KeyError]
    ELSE IF ~SourceIsObject(df) \/ ~TargetIsObject(df)
    THEN [raised |-> TRUE, exception |-> AttributeError_str]
    ELSE [raised |-> FALSE,
          value  |-> clean(dropna(merge(melt(df, url_cols(df)),
                                        melt(df, texto_cols(df)))))]

----------------------------------------------------------------------------
(* The uploaded files the model draws from *)

MaxRows == 2
UploadRows == 1
UploadCols == 3
NumSessions == 2

Sessions == 1..NumSessions

D == SOURCE_COL
U1 == <<URL_MARKER, "_", "1">>
U2 == <<URL_MARKER, "_", "2">>
T1 == <<TEXTO_MARKER, "_", "1">>
T2 == <<TEXTO_MARKER, "_", "2">>
\* read_csv renames a second column called Texto_Ancla_Contenido_1
T1_1 == <<TEXTO_MARKER, "_", "1", ".", "1">>
U0 == <<URL_MARKER>>
T0 == <<TEXTO_MARKER>>

Headers ==
    { <<D, U1, T1>>,            \* one link pair
      <<D, U1, T1, U2, T2>>,    \* two link pairs
      <<D, U1, T1, T1_1>>,      \* two anchor columns with suffix 1
      <<D, U0, T0>>,            \* no suffix
      <<D, U1, T2>>,            \* no anchor column with the URL's suffix
      <<D, U1>>,                \* no anchor column
      <<D, T1>>,                \* no URL column
      <<U1, T1>> }              \* no Dirección column

\* the cells the model draws: a plain and a padded Dirección and a missing
\* one; a padded URL, a URL cell of whitespace only and a missing one; two
\* anchor texts.  The columns of the second link pair draw from smaller
\* sets (the code treats them as it treats the first pair's).
DirCells == { <<"a">>, <<" ", "b">>, NaN }
UrlCells == { <<"c", " ">>, <<" ">>, NaN }
Url2Cells == { <<"a">>, NaN }
TextoCells == { <<"x">>, <<"y">> }
Texto2Cells == { <<"w">> }

CellsOf(col) ==
    IF col = SOURCE_COL THEN DirCells
    ELSE IF col = U2 THEN Url2Cells
    ELSE IF col = T2 THEN Texto2Cells
    ELSE IF Contains(col, URL_MARKER) THEN UrlCells
    ELSE TextoCells

\* the rows a file with header h can hold
RECURSIVE RowsOf(_)
RowsOf(h) ==
    IF h = <<>> THEN { <<>> }
    ELSE { <<c>> \o r : c \in CellsOf(Head(h)), r \in RowsOf(Tail(h)) }

\* the rows of every header, computed once
Rows == [h \in Headers |-> RowsOf(h)]

\* the file with header h and the rows rs
File(h, rs) == [columns |-> h, rows |-> rs]

\* the headers of the files a session uploads
UploadHeaders == { h \in Headers : Len(h) <= UploadCols }

----------------------------------------------------------------------------
(* The upload handler (lines 59-154), one run per session and upload *)

\* nx.from_pandas_edgelist(df_links, 'Source', 'Target') with the default
\* create_using: an undirected nx.Graph.  Its nodes are the Source and
\* Target values; an edge is stored under both of its ends.
from_pandas_edgelist(df) ==
    [class |-> "Graph",
     nodes |-> { df[i].Source : i \in 1..Len(df) }
               \cup { df[i].Target : i \in 1..Len(df) },
     adj   |-> { <<df[i].Source, df[i].Target>> : i \in 1..Len(df) }
               \cup { <<df[i].Target, df[i].Source>> : i \in 1..Len(df) }]

\* G.in_degree (line 79): only nx.DiGraph has the attribute
AttributeError_in_degree == <<"'Graph' object has no attribute 'in_degree'">>

\* st.success(f"... Se encontraron {len(df_links)} enlaces.")
st_success(df) == [kind |-> "success", n |-> Len(df), body |-> <<>>]

\* st.tabs([...]) and the header and markdown of the first tab
st_tabs == [kind |-> "tabs", n |-> 0, body |-> <<>>]

st_header1 == [kind |-> "header", n |-> 0, body |-> <<"Mapa de Red de Enlaces Internos">>]

\* st.error(f"Ocurrió un error al procesar el archivo: {e}")
st_error(e) ==
    [kind |-> "error", n |-> 0,
     body |-> <<"Ocurrió un error al procesar el archivo: ">> \o e]

Init ==
    /\ pc = [s \in Sessions |-> "idle"]
    /\ uploaded_file = [s \in Sessions |-> Nothing]
    /\ df_links = [s \in Sessions |-> Nothing]
    /\ exc = [s \in Sessions |-> None]
    /\ G = [s \in Sessions |-> Nothing]
    /\ in_degree = [s \in Sessions |-> Nothing]
    /\ screen = [s \in Sessions |-> <<>>]
    /\ link_counts = [s \in Sessions |-> Nothing]
    /\ html_content = [s \in Sessions |-> Nothing]
    /\ network_graph_html = Nothing

\* line 59-61: a file arrives; Streamlit reruns the script for the session
\* on an empty page
Upload(s, f) ==
    /\ pc[s] \in {"idle", "done"}
    /\ pc' = [pc EXCEPT ![s] = "process_data"]
    /\ uploaded_file' = [uploaded_file EXCEPT ![s] = Some(f)]
    /\ df_links' = [df_links EXCEPT ![s] = Nothing]
    /\ exc' = [exc EXCEPT ![s] = None]
    /\ G' = [G EXCEPT ![s] = Nothing]
    /\ in_degree' = [in_degree EXCEPT ![s] = Nothing]
    /\ screen' = [screen EXCEPT ![s] = <<>>]
    /\ link_counts' = [link_counts EXCEPT ![s] = Nothing]
    /\ html_content' = [html_content EXCEPT ![s] = Nothing]
    /\ UNCHANGED network_graph_html

\* line 63
ProcessData(s) ==
    /\ pc[s] = "process_data"
    /\ LET r == process_data(Get(uploaded_file[s]))
       IN  IF r.raised
           THEN /\ exc' = [exc EXCEPT ![s] = r.exception]
                /\ pc' = [pc EXCEPT ![s] = "except"]
                /\ UNCHANGED df_links
           ELSE /\ df_links' = [df_links EXCEPT ![s] = Some(r.value)]
                /\ pc' = [pc EXCEPT ![s] = "st.success"]
                /\ UNCHANGED exc
    /\ UNCHANGED <<uploaded_file, G, in_degree, screen, link_counts,
                   html_content, network_graph_html>>

\* line 65
Success(s) ==
    /\ pc[s] = "st.success"
    /\ screen' = [screen EXCEPT ![s] = Append(@, st_success(Get(df_links[s])))]
    /\ pc' = [pc EXCEPT ![s] = "st.tabs"]
    /\ UNCHANGED <<uploaded_file, df_links, exc, G, in_degree, link_counts,
                   html_content, network_graph_html>>

\* lines 68-73
Tabs(s) ==
    /\ pc[s] = "st.tabs"
    /\ screen' = [screen EXCEPT ![s] = @ \o <<st_tabs, st_header1>>]
    /\ pc' = [pc EXCEPT ![s] = "from_pandas_edgelist"]
    /\ UNCHANGED <<uploaded_file, df_links, exc, G, in_degree, link_counts,
                   html_content, network_graph_html>>

\* line 76
BuildGraph(s) ==
    /\ pc[s] = "from_pandas_edgelist"
    /\ G' = [G EXCEPT ![s] = Some(from_pandas_edgelist(Get(df_links[s])))]
    /\ pc' = [pc EXCEPT ![s] = "in_degree"]
    /\ UNCHANGED <<uploaded_file, df_links, exc, in_degree, screen, link_counts,
                   html_content, network_graph_html>>

\* line 79: dict(G.in_degree) raises on the undirected graph: in_degree is
\* never assigned, and lines 80-151 (node sizes, the pyvis network, network_graph.html, the bar chart
\* and the table) are never run
InDegree(s) ==
    /\ pc[s] = "in_degree"
    /\ exc' = [exc EXCEPT ![s] = AttributeError_in_degree]
    /\ pc' = [pc EXCEPT ![s] = "except"]
    /\ UNCHANGED <<uploaded_file, df_links, G, in_degree, screen, link_counts,
                   html_content, network_graph_html>>

\* lines 153-154
Except(s) ==
    /\ pc[s] = "except"
    /\ screen' = [screen EXCEPT ![s] = Append(@, st_error(exc[s]))]
    /\ pc' = [pc EXCEPT ![s] = "done"]
    /\ UNCHANGED <<uploaded_file, df_links, exc, G, in_degree, link_counts,
                   html_content, network_graph_html>>

Next ==
    \E s \in Sessions :
        \/ \E h \in UploadHeaders, k \in 0..UploadRows :
               \E rs \in [1..k -> Rows[h]] : Upload(s, File(h, rs))
        \/ ProcessData(s)
        \/ Success(s)
        \/ Tabs(s)
        \/ BuildGraph(s)
        \/ InDegree(s)
        \/ Except(s)

Spec == Init /\ [][Next]_vars

----------------------------------------------------------------------------
(* process_data on its own: one call on every file of up to MaxRows rows *)

InitPD ==
    /\ \E h \in Headers, k \in 0..MaxRows :
           \E rs \in [1..k -> Rows[h]] :
               uploaded_file =
                   [s \in Sessions |-> IF s = 1 THEN Some(File(h, rs))
                                    ELSE Nothing]
    /\ pc = [s \in Sessions |-> IF s = 1 THEN "process_data" ELSE "idle"]
    /\ df_links = [s \in Sessions |-> Nothing]
    /\ exc = [s \in Sessions |-> None]
    /\ G = [s \in Sessions |-> Nothing]
    /\ in_degree = [s \in Sessions |-> Nothing]
    /\ screen = [s \in Sessions |-> <<>>]
    /\ link_counts = [s \in Sessions |-> Nothing]
    /\ html_content = [s \in Sessions |-> Nothing]
    /\ network_graph_html = Nothing

NextPD == \E s \in Sessions : ProcessData(s)

SpecPD == InitPD /\ [][NextPD]_vars

----------------------------------------------------------------------------
(* The ranking of line 130: df_links['Target'].value_counts().nlargest(20) *)

TopN == 20

RECURSIVE unique(_)
unique(col) ==
    IF col = <<>> THEN <<>>
    ELSE <<Head(col)>>
         \o unique(SelectSeq(Tail(col), LAMBDA v : v # Head(col)))

\* value_counts before its sort: the non-missing values in order of first
\* occurrence, each with the number of records that hold it
value_counts_unsorted(col) ==
    LET present == SelectSeq(col, LAMBDA v : ~isna(v))
        keys == unique(present)
    IN  [i \in 1..Len(keys) |->
            [Target |-> keys[i],
             count  |-> Cardinality({ k \in 1..Len(present) :
                                        present[k] = keys[i] })]]

Reverse(q) == [i \in 1..Len(q) |-> q[Len(q) + 1 - i]]

RemoveAt(q, i) == SubSeq(q, 1, i - 1) \o SubSeq(q, i + 1, Len(q))

\* a descending sort that keeps equal counts in the order they come in
RECURSIVE sort_desc(_)
sort_desc(vc) ==
    IF vc = <<>> THEN <<>>
    ELSE LET i == CHOOSE j \in 1..Len(vc) :
                    /\ \A k \in 1..Len(vc) : vc[k].count <= vc[j].count
                    /\ \A k \in 1..(j - 1) : vc[k].count < vc[j].count
         IN  <<vc[i]>> \o sort_desc(RemoveAt(vc, i))

\* an ascending sort, equal counts in the order they come in
RECURSIVE sort_asc(_)
sort_asc(vc) ==
    IF vc = <<>> THEN <<>>
    ELSE LET i == CHOOSE j \in 1..Len(vc) :
                    /\ \A k \in 1..Len(vc) : vc[k].count >= vc[j].count
                    /\ \A k \in 1..(j - 1) : vc[k].count > vc[j].count
         IN  <<vc[i]>> \o sort_asc(RemoveAt(vc, i))

\* sort_values with the order reversed
sort_values_ascending(vc) == { sort_asc(vc), sort_asc(Reverse(vc)) }

\* Series.sort_values(ascending=False) with the default kind='quicksort',
\* which is not a stable sort: the result is in descending order of count,
\* and equal counts come in an order the sort does not fix.  The outcomes
\* the model draws from: equal counts in the order they come in, and in the
\* opposite order.
sort_values(vc) == { sort_desc(vc), sort_desc(Reverse(vc)) }

\* Series.value_counts(): counted, then sorted by count, descending
value_counts(col) == sort_values(value_counts_unsorted(col))

\* Series.nlargest(n), keep='first': with n >= len it is
\* sort_values(ascending=False).head(n); otherwise the n largest, equal
\* counts in the order they come in (a stable sort of the candidates)
nlargest(vc, n) ==
    IF n >= Len(vc)
    THEN { SubSeq(o, 1, Len(vc)) : o \in sort_values(vc) }
    ELSE { SubSeq(sort_desc(vc), 1, n) }

\* line 130: the rankings the line can produce
link_counts_of(df) ==
    UNION { nlargest(vc, TopN) :
            vc \in value_counts([i \in 1..Len(df) |-> df[i].Target]) }

\* lines 126-130, taken on their own
LinkCounts(s) ==
    /\ pc[s] = "link_counts"
    /\ \E lc \in link_counts_of(Get(df_links[s])) :
           link_counts' = [link_counts EXCEPT ![s] = Some(lc)]
    /\ pc' = [pc EXCEPT ![s] = "barplot"]
    /\ UNCHANGED <<uploaded_file, df_links, exc, G, in_degree, screen,
                   html_content, network_graph_html>>

\* The frames the ranking is checked on: the records of one page that
\* links to m targets, first to target r+1, ..., m, 1, ..., r and then again
\* to a few of the first NumExtraTargets targets.
NumTargets == 22
MaxRot == 3
MaxExtra == 2
NumExtraTargets == 3

\* the i-th target: a string of i letters
TargetName(i) == [j \in 1..i |-> "t"]

\* a record of the page (its bookkeeping fields are not read by the ranking)
RankRecord(i) ==
    [Source |-> <<"a">>, Target |-> TargetName(i), Anchor_Text |-> <<"x">>,
     row |-> 1, url_col_name |-> U1, texto_row |-> 1, texto_col_name |-> T1]

RankFrame(m, r, extra) ==
    [k \in 1..(m + Len(extra)) |->
        IF k <= m THEN RankRecord(((k - 1 + r) % m) + 1)
        ELSE RankRecord(extra[k - m])]

InitRank ==
    /\ \E m \in 0..NumTargets, r \in 0..MaxRot, n \in 0..MaxExtra :
           \E extra \in [1..n -> 1..NumExtraTargets] :
               /\ r < m \/ r = 0
               /\ \A k \in 1..n : extra[k] <= m
               /\ df_links =
                      [s \in Sessions |->
                          IF s = 1 THEN Some(RankFrame(m, r, extra))
                          ELSE Nothing]
    /\ pc = [s \in Sessions |-> IF s = 1 THEN "link_counts" ELSE "idle"]
    /\ uploaded_file = [s \in Sessions |-> Nothing]
    /\ exc = [s \in Sessions |-> None]
    /\ G = [s \in Sessions |-> Nothing]
    /\ in_degree = [s \in Sessions |-> Nothing]
    /\ screen = [s \in Sessions |-> <<>>]
    /\ link_counts = [s \in Sessions |-> Nothing]
    /\ html_content = [s \in Sessions |-> Nothing]
    /\ network_graph_html = Nothing

NextRank == \E s \in Sessions : LinkCounts(s)

SpecRank == InitRank /\ [][NextRank]_vars

----------------------------------------------------------------------------
(* The graph file of lines 118-122, taken on its own.  In a run of the     *)
(* script these lines follow line 79, which raises (see InDegree), so Spec *)
(* never gets here; SpecFile starts two sessions at line 119, each with    *)
(* the graph of its own frame, to see what the lines do once reached.      *)

\* what net.save_graph writes for the network made by net.from_nx(G): the
\* nodes and edges of G inside pyvis' page template
generate_html(g) == [template |-> "pyvis", nodes |-> g.nodes, edges |-> g.adj]

\* line 119: net.save_graph('network_graph.html')
SaveGraph(s) ==
    /\ pc[s] = "save_graph"
    /\ network_graph_html' = Some(generate_html(Get(G[s])))
    /\ pc' = [pc EXCEPT ![s] = "open"]
    /\ UNCHANGED <<uploaded_file, df_links, exc, G, in_degree, screen,
                   link_counts, html_content>>

\* lines 120-121: html_content = f.read()
ReadGraph(s) ==
    /\ pc[s] = "open"
    /\ html_content' = [html_content EXCEPT ![s] = network_graph_html]
    /\ pc' = [pc EXCEPT ![s] = "components.html"]
    /\ UNCHANGED <<uploaded_file, df_links, exc, G, in_degree, screen,
                   link_counts, network_graph_html>>

\* line 122: components.html(html_content, height=800)
st_components_html == [kind |-> "components.html", n |-> 0, body |-> <<>>]

ShowGraph(s) ==
    /\ pc[s] = "components.html"
    /\ screen' = [screen EXCEPT ![s] = Append(@, st_components_html)]
    /\ pc' = [pc EXCEPT ![s] = "tab2"]
    /\ UNCHANGED <<uploaded_file, df_links, exc, G, in_degree, link_counts,
                   html_content, network_graph_html>>

InitFile ==
    /\ \E fs \in [Sessions -> Rows[<<D, U1, T1>>]] :
           /\ \A s \in Sessions :
                  ~process_data(File(<<D, U1, T1>>, <<fs[s]>>)).raised
           /\ uploaded_file =
                  [s \in Sessions |-> Some(File(<<D, U1, T1>>, <<fs[s]>>))]
           /\ df_links =
                  [s \in Sessions |->
                      Some(process_data(File(<<D, U1, T1>>, <<fs[s]>>)).value)]
           /\ G = [s \in Sessions |->
                      Some(from_pandas_edgelist(
                          process_data(File(<<D, U1, T1>>, <<fs[s]>>)).value))]
    /\ pc = [s \in Sessions |-> "save_graph"]
    /\ exc = [s \in Sessions |-> None]
    /\ in_degree = [s \in Sessions |-> Nothing]
    /\ screen = [s \in Sessions |-> <<st_tabs, st_header1>>]
    /\ link_counts = [s \in Sessions |-> Nothing]
    /\ html_content = [s \in Sessions |-> Nothing]
    /\ network_graph_html = Nothing

NextFile ==
    \E s \in Sessions :
        \/ SaveGraph(s)
        \/ ReadGraph(s)
        \/ ShowGraph(s)

SpecFile == InitFile /\ [][NextFile]_vars

----------------------------------------------------------------------------
(* Claims about process_data, checked under SpecPD *)

\* the frame process_data returned to session s
Returned(s) == df_links[s] # Nothing

Frame(s) == Get(df_links[s])

Input(s) == Get(uploaded_file[s])

CellAt(df, r, col) == df.rows[r][ColIndex(df, col)]

IsTrimmedNonEmpty(v) ==
    /\ ~isna(v)
    /\ v # <<>>
    /\ Head(v) \notin Whitespace
    /\ v[Len(v)] \notin Whitespace

IsBlank(v) == isna(v) \/ str_strip(v) = <<>>

\* C1: every edge record of a returned frame has a Source and a Target that
\* are non-empty strings without leading or trailing whitespace, and no
\* record comes from a target-URL cell that is missing or only whitespace.
C1_TrimmedNonEmpty ==
    \A s \in Sessions :
        Returned(s) =>
            \A i \in 1..Len(Frame(s)) :
                /\ IsTrimmedNonEmpty(Frame(s)[i].Source)
                /\ IsTrimmedNonEmpty(Frame(s)[i].Target)
                /\ ~IsBlank(CellAt(Input(s), Frame(s)[i].row,
                                   Frame(s)[i].url_col_name))

\* no two rows with the same Dirección value, no two anchor columns with
\* the same numeric suffix
NoRepeats(df) ==
    /\ \A q, r \in 1..Len(df.rows) :
           CellAt(df, q, SOURCE_COL) = CellAt(df, r, SOURCE_COL) => q = r
    /\ \A i, j \in 1..Len(df.columns) :
           /\ Contains(df.columns[i], TEXTO_MARKER)
           /\ Contains(df.columns[j], TEXTO_MARKER)
           /\ link_num(df.columns[i]) = link_num(df.columns[j])
           => i = j

\* C2: the returned frame is in input order: a record from an earlier input
\* row precedes a record from a later one, and two records of one input row
\* are in increasing order of the numeric suffix of their target column.
\* (Stated for files without repeated Dirección values, where every record
\* comes from one input row.)
C2_RowOrder ==
    \A s \in Sessions :
        Returned(s) /\ NoRepeats(Input(s)) =>
            \A i, j \in 1..Len(Frame(s)) :
                i < j =>
                    /\ Frame(s)[i].row <= Frame(s)[j].row
                    /\ Frame(s)[i].row = Frame(s)[j].row =>
                           link_num(Frame(s)[i].url_col_name)
                               <= link_num(Frame(s)[j].url_col_name)

\* the (row, column) positions of the non-missing target-URL cells
UrlCellsOf(df) ==
    { <<r, i>> \in (1..Len(df.rows)) \X (1..Len(df.columns)) :
        Contains(df.columns[i], URL_MARKER) /\ ~isna(df.rows[r][i]) }

\* the (row, column) positions of the anchor cells that pair with the
\* target-URL cell at <<r, i>>: same Dirección value, same numeric suffix
AnchorsOf(df, r, i) ==
    { <<q, j>> \in (1..Len(df.rows)) \X (1..Len(df.columns)) :
        /\ Contains(df.columns[j], TEXTO_MARKER)
        /\ link_num(df.columns[j]) = link_num(df.columns[i])
        /\ CellAt(df, q, SOURCE_COL) = CellAt(df, r, SOURCE_COL) }

\* the anchor columns whose numeric suffix is that of column i
AnchorColsOf(df, i) ==
    { j \in 1..Len(df.columns) :
        /\ Contains(df.columns[j], TEXTO_MARKER)
        /\ link_num(df.columns[j]) = link_num(df.columns[i]) }

\* the records of frame e that come from the target-URL cell at <<r, i>>
RecordsOf(df, e, r, i) ==
    { k \in 1..Len(e) : e[k].row = r /\ e[k].url_col_name = df.columns[i] }

\* C10 as claimed: one edge record per non-missing target-URL cell whose
\* suffix occurs on an anchor column, carrying the anchor cell of the same
\* row, also when Dirección values or suffixes repeat; never more records
\* than non-missing target-URL cells.
C10_OneRecordPerCell ==
    \A s \in Sessions :
        Returned(s) =>
            LET df == Input(s)
                e  == Frame(s)
            IN  /\ \A c \in UrlCellsOf(df) :
                       Cardinality(RecordsOf(df, e, c[1], c[2])) =
                           IF AnchorColsOf(df, c[2]) # {} THEN 1 ELSE 0
                /\ \A k \in 1..Len(e) :
                       \E j \in 1..Len(df.columns) :
                           /\ Contains(df.columns[j], TEXTO_MARKER)
                           /\ link_num(df.columns[j]) = link_num(e[k].url_col_name)
                           /\ e[k].Anchor_Text = df.rows[e[k].row][j]
                /\ Len(e) <= Cardinality(UrlCellsOf(df))

\* C10 as amended: the frame is the inner join.  Each non-missing
\* target-URL cell yields exactly one record per anchor cell with the same
\* Dirección value and the same suffix, carrying that anchor cell, the
\* stripped Dirección and the stripped URL, and there are no other records;
\* without repeated Dirección values and repeated anchor suffixes that is
\* at most one record per cell, with the anchor of the cell's own row.
C10_InnerJoin ==
    \A s \in Sessions :
        Returned(s) =>
            LET df == Input(s)
                e  == Frame(s)
            IN  /\ \A c \in UrlCellsOf(df) :
                       \A a \in AnchorsOf(df, c[1], c[2]) :
                           Cardinality(
                               { k \in RecordsOf(df, e, c[1], c[2]) :
                                   /\ e[k].texto_row = a[1]
                                   /\ e[k].texto_col_name = df.columns[a[2]]
                                   /\ e[k].Anchor_Text = df.rows[a[1]][a[2]]
                                   /\ e[k].Source =
                                          str_strip(CellAt(df, c[1], SOURCE_COL))
                                   /\ e[k].Target =
                                          str_strip(df.rows[c[1]][c[2]]) }) = 1
                /\ \A c \in UrlCellsOf(df) :
                       Cardinality(RecordsOf(df, e, c[1], c[2]))
                           = Cardinality(AnchorsOf(df, c[1], c[2]))
                /\ \A k \in 1..Len(e) :
                       \E c \in UrlCellsOf(df) : k \in RecordsOf(df, e, c[1], c[2])
                /\ NoRepeats(df) =>
                       /\ \A k \in 1..Len(e) : e[k].texto_row = e[k].row
                       /\ Len(e) <= Cardinality(UrlCellsOf(df))

\* C10 witness: a returned frame from a file with a repeated Dirección
\* value that holds more records than the file has target-URL cells
C10_Witness ==
    \E s \in Sessions :
        /\ Returned(s)
        /\ ~NoRepeats(Input(s))
        /\ Len(Frame(s)) > Cardinality(UrlCellsOf(Input(s)))

----------------------------------------------------------------------------
(* Claims about the upload handler, checked under Spec *)

\* the kinds of the elements on the page of session s
Shown(s) == { screen[s][i].kind : i \in 1..Len(screen[s]) }

ErrorsShown(s) ==
    { screen[s][i].body : i \in { j \in 1..Len(screen[s]) :
                                    screen[s][j].kind = "error" } }

\* the three views: components.html (line 122), st.image (line 145) and
\* st.dataframe (line 151)
Views == {"components.html", "image", "dataframe"}

Mentions(body, word) == \E i \in 1..Len(body) : body[i] = word

\* a message that describes the expected column layout names at least the
\* source column and the target-URL marker
DescribesLayout(body) ==
    Mentions(body, "Dirección") /\ Mentions(body, URL_MARKER)

\* C3: the graph built from a frame with edge records is directed, with an
\* edge A->B exactly when some edge record has Source=A and Target=B, and
\* the in-degree computed for every node is the number of distinct Source
\* values with a record targeting it.
C3_DirectedInDegree ==
    \A s \in Sessions :
        pc[s] = "done" /\ G[s] # Nothing /\ Len(Frame(s)) > 0 =>
            LET e == Frame(s)
                g == Get(G[s])
            IN  /\ g.adj = { <<e[i].Source, e[i].Target>> : i \in 1..Len(e) }
                /\ in_degree[s] # Nothing
                /\ \A n \in g.nodes :
                       Get(in_degree[s])[n] =
                           Cardinality({ e[i].Source :
                               i \in { j \in 1..Len(e) : e[j].Target = n } })

C6_EmptyWarning ==
    \A s \in Sessions :
        pc[s] = "done" /\ Returned(s) /\ Len(Frame(s)) = 0 =>
            /\ "warning" \in Shown(s)
            /\ "success" \notin Shown(s)
            /\ "error" \notin Shown(s)
            /\ G[s] = Nothing
            /\ Shown(s) \cap Views = {}

\* C7: when the handling of an upload ends, the page shows either the
\* complete result (success summary, the three views, no error) or an
\* error with nothing of the result.
C7_AllOrNothing ==
    \A s \in Sessions :
        pc[s] = "done" =>
            \/ /\ "error" \notin Shown(s)
               /\ "success" \in Shown(s)
               /\ Views \subseteq Shown(s)
            \/ Shown(s) = {"error"}

\* C8: whenever rendering one view fails, the other two are rendered: here
\* the network map fails (lines 76-122 raise).
C8_IndependentViews ==
    \A s \in Sessions :
        pc[s] = "done" /\ exc[s] = AttributeError_in_degree =>
            {"image", "dataframe"} \subseteq Shown(s)

----------------------------------------------------------------------------
(* Claims about the ranking, checked under SpecRank *)

Ranked(s) == link_counts[s] # Nothing

Ranking(s) == Get(link_counts[s])

\* the records of frame e whose Target is t, and the first of them
RecordsTo(e, t) == { k \in 1..Len(e) : e[k].Target = t }

FirstTo(e, t) == CHOOSE k \in RecordsTo(e, t) : \A l \in RecordsTo(e, t) : k <= l

TargetsOf(e) == { e[k].Target : k \in 1..Len(e) }

Ranks(lc) == { lc[i].Target : i \in 1..Len(lc) }

\* the part of C4 that does not depend on the order of equal counts: the
\* ranking lists distinct targets of the frame, each with the number of its
\* records (repeated (Source, Target) records counted each), in descending
\* order of count; it holds min(TopN, number of targets) of them, and no
\* target left out has more records than a listed one.
RankingByCount(e, lc) ==
    /\ \A i \in 1..Len(lc) :
           /\ lc[i].Target \in TargetsOf(e)
           /\ lc[i].count = Cardinality(RecordsTo(e, lc[i].Target))
    /\ \A i, j \in 1..Len(lc) : i < j =>
           /\ lc[i].Target # lc[j].Target
           /\ lc[i].count >= lc[j].count
    /\ Len(lc) = IF Cardinality(TargetsOf(e)) < TopN
                 THEN Cardinality(TargetsOf(e)) ELSE TopN
    /\ \A t \in TargetsOf(e) \ Ranks(lc) :
           \A i \in 1..Len(lc) : Cardinality(RecordsTo(e, t)) <= lc[i].count

\* equal counts come in the order in which the targets first occur in the
\* frame, among the listed targets and between a listed and a left-out one
TiesFirstEncountered(e, lc) ==
    /\ \A i, j \in 1..Len(lc) :
           i < j /\ lc[i].count = lc[j].count =>
               FirstTo(e, lc[i].Target) < FirstTo(e, lc[j].Target)
    /\ \A t \in TargetsOf(e) \ Ranks(lc) :
           \A i \in 1..Len(lc) :
               Cardinality(RecordsTo(e, t)) = lc[i].count =>
                   FirstTo(e, lc[i].Target) < FirstTo(e, t)

----------------------------------------------------------------------------
(* Claim about the graph file, checked under SpecFile *)

====
